---- MODULE Spec2Model ----
(***************************************************************************)
(* Smartfolio: the two LP-based portfolio optimizers                       *)
(* (app/scripts/min_beta.py, app/scripts/balance_ratio.py) and the         *)
(* portfolio metrics calculator (app/scripts/stats.py).                    *)
(*                                                                         *)
(* Every real number of the program (beta, qty, avg_price, return, the     *)
(* market parameters, the solver's vectors) is an exact rational           *)
(* [n |-> numerator, d |-> denominator] in lowest terms with d > 0; the    *)
(* solver's +infinity is Inf.  Python's arithmetic on these inputs is      *)
(* reproduced operation by operation; the solver's tolerance (1e-9) is far *)
(* below the resolution of the input grid and is taken as 0.               *)
(*                                                                         *)
(* linprog is scipy.optimize.linprog(method='simplex'), the legacy solver   *)
(* both optimizers ask for: presolve, the two-phase tableau simplex with   *)
(* Dantzig's pivot rule, postsolve.  It never raises on an infeasible or   *)
(* unbounded problem: it returns a result whose status is 2 or 3 and whose *)
(* x is still a vector.                                                    *)
(*                                                                         *)
(* State: `equities` is the caller's list of equity records, mutated in    *)
(* place; benchmark_return and risk_free_rate are the market parameters    *)
(* the caller passes.  The other variables record history: `before` is     *)
(* the list as it was when the last optimizer call started, `last` and     *)
(* `prev` describe the last two optimizer calls (how they ended, whether   *)
(* and with what status the solver ran, whether a quantity changed), and   *)
(* `metrics` is what calculate_portfolio_metrics gave for the current      *)
(* list.                                                                   *)
(***************************************************************************)
EXTENDS Integers, Sequences, FiniteSets, TLC

VARIABLES equities, benchmark_return, risk_free_rate, before, last, prev, metrics

vars == <<equities, benchmark_return, risk_free_rate, before, last, prev, metrics>>

(***************************************************************************)
(* Bounds: the longest portfolio, and the largest quantity in half units.  *)
(***************************************************************************)
MaxN == 3
MaxQtyHalves == 3

(***************************************************************************)
(* Exact rational arithmetic.                                              *)
(***************************************************************************)
Abs(a) == IF a < 0 THEN 0 - a ELSE a

RECURSIVE GCD(_, _)
GCD(a, b) == IF b = 0 THEN a ELSE GCD(b, a % b)

\* n/d in lowest terms; a zero denominator gives an infinity, 0/0 a NaN.
Rat(n, d) ==
    LET g == GCD(Abs(n), Abs(d))
        s == IF d < 0 THEN 0 - 1 ELSE 1
    IN  IF g = 0 THEN [n |-> 0, d |-> 0]
        ELSE [n |-> s * (n \div g), d |-> s * (d \div g)]

Num(k) == [n |-> k, d |-> 1]
Zero == Num(0)
Inf == [n |-> 1, d |-> 0]

IsInf(a) == a.d = 0
IsNegative(a) == a.n < 0
IsPositive(a) == a.n > 0
IsZero(a) == a.n = 0 /\ a.d # 0
Add(a, b) == Rat(a.n * b.d + b.n * a.d, a.d * b.d)
Neg(a) == [n |-> 0 - a.n, d |-> a.d]
Sub(a, b) == Add(a, Neg(b))
Mul(a, b) == Rat(a.n * b.n, a.d * b.d)
Div(a, b) == Rat(a.n * b.d, a.d * b.n)
Less(a, b) == a.n * b.d < b.n * a.d
Leq(a, b) == a.n * b.d <= b.n * a.d

\* Python's round(x) with one argument: nearest integer, ties to even.
round(x) ==
    LET fl == x.n \div x.d
        r == x.n - fl * x.d
    IN  IF 2 * r < x.d THEN fl
        ELSE IF 2 * r > x.d THEN fl + 1
        ELSE IF fl % 2 = 0 THEN fl ELSE fl + 1

RECURSIVE SumTo(_, _)
SumTo(f, k) == IF k = 0 THEN Zero ELSE Add(SumTo(f, k - 1), f[k])

\* Python's sum(list) of a list of numbers
sum(f) == SumTo(f, Len(f))

Min(S) == CHOOSE i \in S : \A k \in S : i <= k

(***************************************************************************)
(* scipy.optimize.linprog(c, A_eq=[A], b_eq=[b], bounds=bounds,            *)
(* method='simplex') for the one-row problems the optimizers build:        *)
(*     minimize c.x  subject to  A.x = b,  lb <= x <= ub.                  *)
(* A result is [status, x]: status 0 optimal, 2 infeasible, 3 unbounded.   *)
(***************************************************************************)
Res(status, x) == [status |-> status, x |-> x]

\* _presolve, last step: no constraint is left, every variable goes to the
\* bound its cost prefers; unbounded when that bound is infinite.
no_constraints(c, bnd, x0, cols) ==
    LET x == [i \in 1..Len(c) |->
                 IF i \notin cols THEN x0[i]
                 ELSE IF IsNegative(c[i]) THEN bnd[i].ub
                 ELSE IF IsPositive(c[i]) THEN bnd[i].lb
                 ELSE IF ~IsInf(bnd[i].ub) THEN bnd[i].ub
                 ELSE IF ~IsInf(bnd[i].lb) THEN bnd[i].lb
                 ELSE Zero]
    IN  IF \E i \in cols : \/ IsNegative(c[i]) /\ IsInf(bnd[i].ub)
                           \/ IsPositive(c[i]) /\ IsInf(bnd[i].lb)
        THEN Res(3, x)
        ELSE Res(0, x)

\* _pivot_col: the first column whose entry r[i] of the objective row is the
\* most negative one (Dantzig's rule); 0 when no entry is negative.
pivot_col(r, cols) ==
    LET cand == {i \in cols : IsNegative(r[i])}
    IN  IF cand = {} THEN 0
        ELSE Min({i \in cand : \A k \in cand : Leq(r[i], r[k])})

\* _solve_simplex, phase 2, for a tableau of one row whose basic variable is
\* column j: the row is A[i]/A[j], the objective row c[i] - c[j]*A[i]/A[j].
\* Returns the final basic column and the status.
RECURSIVE solve_simplex(_, _, _, _)
solve_simplex(c, A, j, cols) ==
    LET r == [i \in 1..Len(c) |-> Sub(c[i], Mul(c[j], Div(A[i], A[j])))]
        pivcol == pivot_col(r, cols)
    IN  IF pivcol = 0 THEN [status |-> 0, basis |-> j]
        ELSE IF ~IsPositive(Div(A[pivcol], A[j]))   \* _pivot_row finds no row
             THEN [status |-> 3, basis |-> j]
        ELSE solve_simplex(c, A, pivcol, cols)

\* _linprog_simplex on the columns presolve kept: the row is negated when
\* b < 0, phase 1 drives the artificial variable out of the basis, phase 2
\* minimizes c.x.
linprog_simplex(c, A, b, cols) ==
    LET n == Len(c)
        neg == IsNegative(b)
        A1 == [i \in 1..n |-> IF neg THEN Neg(A[i]) ELSE A[i]]
        b1 == IF neg THEN Neg(b) ELSE b
        pseudo == [i \in 1..n |-> Neg(A1[i])]
        pivcol == pivot_col(pseudo, cols)
        nonzero == {i \in cols : ~IsZero(A1[i])}
        start == IF pivcol # 0 THEN pivcol
                 ELSE IF IsZero(b1) /\ nonzero # {} THEN Min(nonzero)
                 ELSE 0
        ph2 == solve_simplex(c, A1, start, cols)
    IN  IF start = 0
        THEN Res(IF IsZero(b1) THEN 0 ELSE 2, [i \in 1..n |-> Zero])
        ELSE Res(ph2.status,
                 [i \in 1..n |-> IF i = ph2.basis THEN Div(b1, A1[i]) ELSE Zero])

\* _presolve followed by the solver and _postsolve.
linprog(c, A, b, bnd) ==
    LET n == Len(c)
        nonzero == {i \in 1..n : ~IsZero(A[i])}
        zero_col == (1..n) \ nonzero
        \* zero column: the variable goes to the bound its cost prefers
        x0 == [i \in 1..n |->
                  IF i \in zero_col /\ IsNegative(c[i]) THEN bnd[i].ub
                  ELSE IF i \in zero_col /\ IsPositive(c[i]) THEN bnd[i].lb
                  ELSE Zero]
        fixed == {i \in zero_col : ~IsZero(c[i])}
    IN  IF nonzero = {}                              \* zero row
        THEN IF ~IsZero(b) THEN Res(2, [i \in 1..n |-> Zero])
             ELSE no_constraints(c, bnd, [i \in 1..n |-> Zero], 1..n)
        ELSE IF \E i \in 1..n : IsInf(x0[i])         \* trivially unbounded
        THEN Res(3, x0)
        ELSE IF Cardinality(nonzero) = 1             \* row singleton
        THEN LET j == Min(nonzero)
                 val == Div(b, A[j])
             IN  IF Less(val, bnd[j].lb) \/ Less(bnd[j].ub, val)
                 THEN Res(2, x0)
                 ELSE no_constraints(c, bnd, [x0 EXCEPT ![j] = val],
                                     (1..n) \ (fixed \cup {j}))
        ELSE linprog_simplex(c, A, b, (1..n) \ fixed)

(***************************************************************************)
(* The optimizers (min_beta.py, balance_ratio.py).                         *)
(***************************************************************************)
\* mutant of c_min_beta: the sign of the objective is flipped (maximizes beta)
c_max_beta(eqs) == [i \in 1..Len(eqs) |-> Neg(eqs[i].beta)]

\* c = [equity['beta'] for equity in equities]
c_min_beta(eqs) == [i \in 1..Len(eqs) |-> eqs[i].beta]

\* the denominator equity['beta'] * (benchmark_return - risk_free_rate)
c_denominator(e, bm, rf) == Mul(e.beta, Sub(bm, rf))

\* c = [-((equity['return'] - risk_free_rate) / (equity['beta'] *
\*        (benchmark_return - risk_free_rate))) for equity in equities]
c_sharpe(eqs, bm, rf) ==
    [i \in 1..Len(eqs) |->
        Neg(Div(Sub(eqs[i].return, rf), c_denominator(eqs[i], bm, rf)))]

\* mutant of A_eq: the constraint row counts units instead of value
A_eq_units(eqs) == [i \in 1..Len(eqs) |-> Num(1)]

\* A_eq = [[equity['avg_price'] for equity in equities]]
A_eq(eqs) == [i \in 1..Len(eqs) |-> eqs[i].avg_price]

\* mutant of b_eq: the right-hand side is the number of units, not the value
b_eq_units(eqs) == sum([i \in 1..Len(eqs) |-> eqs[i].qty])

\* b_eq = [sum([equity['avg_price'] * equity['qty'] for equity in equities])]
b_eq(eqs) == sum([i \in 1..Len(eqs) |-> Mul(eqs[i].avg_price, eqs[i].qty)])

\* mutant of bounds: (None, None), the quantities are free
bounds_free(eqs) == [i \in 1..Len(eqs) |-> [lb |-> Neg(Inf), ub |-> Inf]]

\* bounds = [(0, None) for _ in equities]
bounds(eqs) == [i \in 1..Len(eqs) |-> [lb |-> Zero, ub |-> Inf]]

\* mutant of assign_qty: int() instead of round(), the quantity is truncated
RECURSIVE assign_qty_int(_, _, _)
assign_qty_int(eqs, x, i) ==
    IF i > Len(eqs) THEN [equities |-> eqs, outcome |-> "returned"]
    ELSE IF IsInf(x[i]) THEN [equities |-> eqs, outcome |-> "OverflowError"]
    ELSE assign_qty_int([eqs EXCEPT ![i].qty =
                            Num(IF x[i].n < 0 THEN 0 - ((0 - x[i].n) \div x[i].d)
                                ELSE x[i].n \div x[i].d)], x, i + 1)

\* mutant of assign_qty: the positions left empty are dropped from the list
RECURSIVE assign_qty_held(_, _, _)
assign_qty_held(eqs, x, i) ==
    IF i > Len(eqs)
    THEN [equities |-> SelectSeq(eqs, LAMBDA e : ~IsZero(e.qty)),
          outcome |-> "returned"]
    ELSE IF IsInf(x[i]) THEN [equities |-> eqs, outcome |-> "OverflowError"]
    ELSE assign_qty_held([eqs EXCEPT ![i].qty = Num(round(x[i]))], x, i + 1)

\* for i, equity in enumerate(equities): equity['qty'] = round(res.x[i])
\* round() of an infinity raises OverflowError, after the earlier equities
\* were already rewritten.
RECURSIVE assign_qty(_, _, _)
assign_qty(eqs, x, i) ==
    IF i > Len(eqs) THEN [equities |-> eqs, outcome |-> "returned"]
    ELSE IF IsInf(x[i]) THEN [equities |-> eqs, outcome |-> "OverflowError"]
    ELSE assign_qty([eqs EXCEPT ![i].qty = Num(round(x[i]))], x, i + 1)

NoCall == [op |-> "none", outcome |-> "none", solved |-> FALSE, status |-> 0,
           changed |-> FALSE]
NoMetrics == [outcome |-> "none", value |-> <<>>]

minimize_portfolio_beta ==
    LET res == linprog(c_min_beta(equities), A_eq(equities), b_eq(equities),
                       bounds(equities))
        out == assign_qty(equities, res.x, 1)
    IN  /\ equities' = out.equities
        /\ before' = equities
        /\ prev' = last
        /\ last' = [op |-> "minimize_portfolio_beta", outcome |-> out.outcome,
                    solved |-> TRUE, status |-> res.status,
                    changed |-> out.equities # equities]
        /\ metrics' = NoMetrics
        /\ UNCHANGED <<benchmark_return, risk_free_rate>>

maximize_sharpe_ratio ==
    LET bm == benchmark_return
        rf == risk_free_rate
        undefined == \E i \in 1..Len(equities) :
                         IsZero(c_denominator(equities[i], bm, rf))
        res == linprog(c_sharpe(equities, bm, rf), A_eq(equities),
                       b_eq(equities), bounds(equities))
        out == assign_qty(equities, res.x, 1)
    IN  /\ before' = equities
        /\ prev' = last
        /\ metrics' = NoMetrics
        /\ IF undefined
           THEN /\ equities' = equities
                /\ last' = [op |-> "maximize_sharpe_ratio",
                            outcome |-> "ZeroDivisionError",
                            solved |-> FALSE, status |-> 0,
                            changed |-> FALSE]
           ELSE /\ equities' = out.equities
                /\ last' = [op |-> "maximize_sharpe_ratio",
                            outcome |-> out.outcome,
                            solved |-> TRUE, status |-> res.status,
                            changed |-> out.equities # equities]
        /\ UNCHANGED <<benchmark_return, risk_free_rate>>

(***************************************************************************)
(* The metrics calculator (stats.py).                                      *)
(***************************************************************************)
total_investment(eqs) ==
    sum([i \in 1..Len(eqs) |-> Mul(eqs[i].qty, eqs[i].avg_price)])

weight(eqs, i) == Div(Mul(eqs[i].qty, eqs[i].avg_price), total_investment(eqs))

portfolio_beta(eqs) ==
    sum([i \in 1..Len(eqs) |-> Mul(weight(eqs, i), eqs[i].beta)])

portfolio_return(eqs) ==
    sum([i \in 1..Len(eqs) |-> Mul(weight(eqs, i), eqs[i].return)])

portfolio_alpha(eqs, bm, rf) ==
    Sub(Sub(portfolio_return(eqs), rf), Mul(portfolio_beta(eqs), Sub(bm, rf)))

portfolio_std_dev(eqs, bm, rf) ==
    sum([i \in 1..Len(eqs) |->
            Mul(Mul(weight(eqs, i), eqs[i].beta), Sub(bm, rf))])

sharpe_ratio(eqs, bm, rf) ==
    Div(Sub(portfolio_return(eqs), rf), portfolio_std_dev(eqs, bm, rf))

\* The value calculate_portfolio_metrics returns, or the exception it raises:
\* the weights divide by total_investment, the Sharpe ratio by
\* portfolio_std_dev.
portfolio_metrics(eqs, bm, rf) ==
    IF Len(eqs) > 0 /\ IsZero(total_investment(eqs))
    THEN [outcome |-> "ZeroDivisionError", value |-> <<>>]
    ELSE IF IsZero(portfolio_std_dev(eqs, bm, rf))
    THEN [outcome |-> "ZeroDivisionError", value |-> <<>>]
    ELSE [outcome |-> "returned",
          value |-> <<portfolio_beta(eqs), portfolio_alpha(eqs, bm, rf),
                      sharpe_ratio(eqs, bm, rf)>>]

calculate_portfolio_metrics ==
    /\ metrics' = portfolio_metrics(equities, benchmark_return, risk_free_rate)
    /\ UNCHANGED <<equities, benchmark_return, risk_free_rate, before, last, prev>>

(***************************************************************************)
(* The portfolios and market parameters a caller supplies.                 *)
(***************************************************************************)
\* The grid of an equity's fields narrows as the portfolio grows: a single
\* equity ranges over every value, a pair has one return, and the longer
\* portfolios have positive prices, nonzero betas and one quantity.
BetaValues(n) ==
    IF n <= 2 THEN {Rat(0 - 1, 2), Zero, Rat(1, 2), Num(2)}
    ELSE {Rat(0 - 1, 2), Rat(1, 2), Num(2)}
QtyValues(n) ==
    IF n <= 2 THEN {Num(0 - 1)} \cup {Rat(k, 2) : k \in 0..MaxQtyHalves}
    ELSE {Rat(1, 2)}
PriceValues(n) ==
    IF n = 1 THEN {Num(0), Num(1), Num(2), Num(3)}
    ELSE IF n = 2 THEN {Num(0), Num(1), Num(2)}
    ELSE {Num(1), Num(2)}
ReturnValues(n) ==
    IF n = 1 THEN {Num(0), Num(1), Num(2)} ELSE {Num(2)}
RateValues == {Num(1)}
BenchmarkValues == {Num(1), Num(2)}

Equity(n) == [beta : BetaValues(n), qty : QtyValues(n),
              avg_price : PriceValues(n), return : ReturnValues(n)]

Init ==
    /\ \E n \in 1..MaxN : equities \in [1..n -> Equity(n)]
    /\ benchmark_return \in BenchmarkValues
    /\ risk_free_rate \in RateValues
    /\ before = equities
    /\ last = NoCall
    /\ prev = NoCall
    /\ metrics = NoMetrics

Next ==
    \/ minimize_portfolio_beta
    \/ maximize_sharpe_ratio
    \/ calculate_portfolio_metrics

Spec == Init /\ [][Next]_vars

(***************************************************************************)
(* Vocabulary of the properties.  `before` is the portfolio as it was when *)
(* the last optimizer call started, `last` that call's record, `prev` the  *)
(* record of the optimizer call before it.                                 *)
(***************************************************************************)
Optimizers == {"minimize_portfolio_beta", "maximize_sharpe_ratio"}
Called == last.op \in Optimizers
Returned == Called /\ last.outcome = "returned"

AbsRat(a) == [n |-> Abs(a.n), d |-> a.d]
PricesPositive(eqs) == \A i \in 1..Len(eqs) : IsPositive(eqs[i].avg_price)
PricesZero(eqs) == \A i \in 1..Len(eqs) : IsZero(eqs[i].avg_price)
QtyNonNegative(eqs) == \A i \in 1..Len(eqs) : ~IsNegative(eqs[i].qty)
max_avg_price(eqs) ==
    LET P == {eqs[i].avg_price : i \in 1..Len(eqs)}
    IN  CHOOSE p \in P : \A q \in P : Leq(q, p)

\* the Sharpe objective is defined on the portfolio
SharpeDefined(eqs) ==
    /\ benchmark_return # risk_free_rate
    /\ \A i \in 1..Len(eqs) : ~IsZero(eqs[i].beta)

\* the inputs the value-conservation and no-op properties speak about
Feasible ==
    /\ Called
    /\ PricesPositive(before)
    /\ QtyNonNegative(before)
    /\ last.op = "maximize_sharpe_ratio" => SharpeDefined(before)

\* C1 (value conservation): a call on a portfolio with positive prices and
\* non-negative quantities (and a defined Sharpe objective) returns, and the
\* portfolio's value sum(avg_price * qty) afterwards differs from the value
\* before by at most 0.5 * max(avg_price) * n.
C1_ValueConservation ==
    Feasible =>
        /\ last.outcome = "returned"
        /\ Leq(AbsRat(Sub(total_investment(equities), total_investment(before))),
               Mul(Rat(1, 2), Mul(max_avg_price(before), Num(Len(before)))))

\* C1 witness: a feasible call on several equities moved the holdings and the
\* rounding changed the portfolio's value.
C1_Witness ==
    /\ Feasible
    /\ Len(before) >= 2
    /\ last.changed
    /\ total_investment(equities) # total_investment(before)

\* C2 (atomic failure), as claimed: when the solver reports infeasibility or
\* unboundedness the call fails with an OptimizationError and no quantity is
\* rewritten.
C2_AtomicFailure ==
    (Called /\ last.solved /\ last.status \in {2, 3}) =>
        /\ last.outcome = "OptimizationError"
        /\ equities = before

\* C3 (non-negativity): after every call that returns a portfolio, every
\* quantity is >= 0.
C3_NonNegativity ==
    Returned => QtyNonNegative(equities)

\* C3 witness: a call returned on a portfolio that held a negative quantity.
C3_Witness ==
    /\ Returned
    /\ \E i \in 1..Len(before) : IsNegative(before[i].qty)
    /\ \E i \in 1..Len(before) : IsPositive(before[i].avg_price)

\* C4 (zero-price portfolios are rejected), as claimed: a call on a portfolio
\* whose prices are all zero raises an OptimizationError or a DomainError.
C4_ZeroPriceRejected ==
    (Called /\ PricesZero(before)) =>
        last.outcome \in {"OptimizationError", "DomainError"}

\* C5 (single-equity no-op): for one equity with avg_price > 0 and qty >= 0
\* (and a defined Sharpe objective) both optimizers return
\* qty_after = round(qty_before).
C5_SingleEquityNoOp ==
    (Feasible /\ Len(before) = 1) =>
        /\ last.outcome = "returned"
        /\ equities[1].qty = Num(round(before[1].qty))

\* C5 witness: the Sharpe optimizer returned on a single equity whose
\* quantity was not integral and whose objective coefficient is positive.
C5_Witness ==
    /\ Feasible
    /\ Len(before) = 1
    /\ last.op = "maximize_sharpe_ratio"
    /\ before[1].qty = Rat(1, 2)
    /\ IsPositive(c_sharpe(before, benchmark_return, risk_free_rate)[1])
    /\ equities[1].qty = Zero

\* C6 (Sharpe objective domain check), as claimed: with a zero beta or
\* benchmark_return = risk_free_rate the call fails with a DomainError
\* before the solver is called, and no quantity changes.
C6_SharpeDomainError ==
    (last.op = "maximize_sharpe_ratio" /\ ~SharpeDefined(before)) =>
        /\ last.outcome = "DomainError"
        /\ ~last.solved
        /\ equities = before

\* C7 (metrics domain check), as claimed: calculate_portfolio_metrics fails
\* with a DomainError when total_investment = 0, and when portfolio_beta = 0
\* or benchmark_return = risk_free_rate.
C7_MetricsDomainError ==
    (/\ metrics.outcome # "none"
     /\ \/ IsZero(total_investment(equities))
        \/ IsZero(portfolio_beta(equities))
        \/ benchmark_return = risk_free_rate) =>
        metrics.outcome = "DomainError"

\* the portfolios of the monotonicity property: beta = [2.0, 0.5], equal
\* positive prices, non-negative quantities of positive total value, not
\* already all in the lower-beta equity
TwoBetas ==
    /\ last.op = "minimize_portfolio_beta"
    /\ Len(before) = 2
    /\ before[1].beta = Num(2)
    /\ before[2].beta = Rat(1, 2)
    /\ before[1].avg_price = before[2].avg_price
    /\ IsPositive(before[1].avg_price)
    /\ QtyNonNegative(before)
    /\ IsPositive(total_investment(before))
    /\ ~IsZero(before[1].qty)

\* portfolio_beta is computed (the weights are defined) and is at most the
\* portfolio_beta of the portfolio before the call
BetaNotIncreased ==
    /\ ~IsZero(total_investment(equities))
    /\ Leq(portfolio_beta(equities), portfolio_beta(before))

\* C8 (beta-minimization monotonicity), as claimed: on these portfolios the
\* portfolio_beta computed after minimize_portfolio_beta is <= the one
\* computed before.
C8_BetaMonotone ==
    TwoBetas => BetaNotIncreased

\* C8, amended: the same, for the portfolios whose total quantity rounds to
\* at least 1, so that the rewritten portfolio still has a value.
C8_BetaMonotoneRounded ==
    (TwoBetas /\ round(Add(before[1].qty, before[2].qty)) >= 1) =>
        BetaNotIncreased

\* C8 witness: the optimizer moved such a portfolio into the lower-beta
\* equity and portfolio_beta went down.
C8_Witness ==
    /\ TwoBetas
    /\ round(Add(before[1].qty, before[2].qty)) >= 1
    /\ ~IsZero(total_investment(equities))
    /\ Less(portfolio_beta(equities), portfolio_beta(before))
    /\ equities[1].qty = Zero

\* C9 (immediate convergence): calling the optimizer that just returned
\* again, on the portfolio it left, returns and leaves every qty as it was.
C9_Idempotent ==
    (Called /\ prev.op = last.op /\ prev.outcome = "returned") =>
        /\ last.outcome = "returned"
        /\ equities = before

\* C9 witness: the first call rewrote the portfolio (three equities, value
\* changed by rounding) and the second call of the same optimizer ran on it.
C9_Witness ==
    /\ Called
    /\ prev.op = last.op
    /\ prev.outcome = "returned"
    /\ prev.changed
    /\ Len(equities) = 3
    /\ \E i \in 1..Len(equities) : IsPositive(equities[i].qty)

\* C10 (frame): an optimizer call, returning or failing, keeps the number of
\* equities and every equity's beta, avg_price and return, index by index.
C10_Frame ==
    Called =>
        /\ Len(equities) = Len(before)
        /\ \A i \in 1..Len(before) :
              /\ equities[i].beta = before[i].beta
              /\ equities[i].avg_price = before[i].avg_price
              /\ equities[i].return = before[i].return

\* C10 witness: a call rewrote quantities of a portfolio of several equities
\* with different betas and prices.
C10_Witness ==
    /\ Returned
    /\ last.changed
    /\ Len(before) >= 2
    /\ before[1].beta # before[2].beta
    /\ before[1].avg_price # before[2].avg_price

====
